---- MODULE Spec2Model ----
(***************************************************************************)
(* Model of flow_watcher/notion.py: the block-tree to Markdown renderer    *)
(* (read_page_markdown and its helpers) and the Markdown to block parser   *)
(* (write_markdown_to_page and _convert_markdown_to_blocks).               *)
(*                                                                         *)
(* A Python str is a sequence of one-character strings, so that slicing,   *)
(* startswith, split, strip and join are computed character by character.  *)
(* A Python dict is a record; a key the dict may lack is tested with       *)
(* DOMAIN.  An exception is the field exc of the threaded call state: once *)
(* it is set, every enclosing operator returns at once, as a Python        *)
(* exception unwinds the frames above it.                                  *)
(***************************************************************************)
EXTENDS Integers, Sequences, FiniteSets, TLC

VARIABLES served, prev, last, markdown_content, patch_request, download

vars == <<served, prev, last, markdown_content, patch_request, download>>

(***************************************************************************)
(* Bounds of the model.                                                    *)
(***************************************************************************)
\* longest list of children the fetcher serves for the first identifier
MaxBlocks == 2
\* nested Python frames allowed before RecursionError: the limit of the
\* interpreter scaled down.  Over two identifiers a render that terminates
\* nests at most 14 frames: read_page_markdown, then two frames for each of
\* at most two pages and at most four toggle entries (a toggle entered
\* twice on one call path with the same processed_pages repeats for ever),
\* then the call that returns on an identifier already processed.
RecursionLimit == 14
\* most lines of a Markdown text handed to write_markdown_to_page
MaxLines == 2

\* the longest flat block list the script machine reads
MaxFlat == 3

\* the most rich-text runs of a paragraph made of several runs
MaxRuns == 2

\* the most chunks the remote file is served in
MaxChunks == 3

(***************************************************************************)
(* Strings.                                                                *)
(***************************************************************************)
NL == "\n"
SEP == <<NL, NL>>

RECURSIVE Flatten(_)
Flatten(ss) ==
    IF ss = <<>> THEN <<>> ELSE Head(ss) \o Flatten(Tail(ss))

\* str.startswith(prefix)
StartsWith(s, prefix) ==
    /\ Len(s) >= Len(prefix)
    /\ SubSeq(s, 1, Len(prefix)) = prefix

\* s[n:]
SliceFrom(s, n) ==
    IF n >= Len(s) THEN <<>> ELSE SubSeq(s, n + 1, Len(s))

\* sep.join(parts)
RECURSIVE JoinStr(_, _)
JoinStr(sep, parts) ==
    IF parts = <<>> THEN <<>>
    ELSE IF Len(parts) = 1 THEN parts[1]
    ELSE parts[1] \o sep \o JoinStr(sep, Tail(parts))

\* s.split('\n'): the segments between the newlines, empty segments kept
RECURSIVE SplitFrom(_, _, _)
SplitFrom(s, i, cur) ==
    IF i > Len(s) THEN <<cur>>
    ELSE IF s[i] = NL THEN <<cur>> \o SplitFrom(s, i + 1, <<>>)
    ELSE SplitFrom(s, i + 1, Append(cur, s[i]))

\* a plausible slip: blank lines dropped, as a filtering split would
SplitLines_SkipBlank(s) == SelectSeq(SplitFrom(s, 1, <<>>), LAMBDA l : l # <<>>)

SplitLines(s) == SplitFrom(s, 1, <<>>)

Whitespace == {" ", "\t", "\n", "\r", "\f"}

RECURSIVE LStrip(_)
LStrip(s) ==
    IF s # <<>> /\ Head(s) \in Whitespace THEN LStrip(Tail(s)) ELSE s

RECURSIVE RStrip(_)
RStrip(s) ==
    IF s # <<>> /\ s[Len(s)] \in Whitespace
    THEN RStrip(SubSeq(s, 1, Len(s) - 1)) ELSE s

\* s.strip()
Strip(s) == RStrip(LStrip(s))

\* d.get(key, default) on a record
Get(d, key, default) == IF key \in DOMAIN d THEN d[key] ELSE default

HasKey(d, key) == key \in DOMAIN d

(***************************************************************************)
(* Literals of the renderer.                                               *)
(***************************************************************************)
DetailsOpen ==
    <<">", " ", "<", "d", "e", "t", "a", "i", "l", "s", ">",
      "<", "s", "u", "m", "m", "a", "r", "y", ">">>
SummaryClose == <<"<", "/", "s", "u", "m", "m", "a", "r", "y", ">">>
DetailsClose == <<"<", "/", "d", "e", "t", "a", "i", "l", "s", ">">>
UntitledPage ==
    <<"U", "n", "t", "i", "t", "l", "e", "d", " ", "P", "a", "g", "e">>
\* the backquote character (a string literal cannot hold it)
BQ == "BACKQUOTE"
Fence == <<BQ, BQ, BQ>>

(***************************************************************************)
(* Rich text.                                                              *)
(***************************************************************************)
NoAnnotations ==
    [bold |-> FALSE, italic |-> FALSE, underline |-> FALSE,
     strikethrough |-> FALSE, code |-> FALSE]

\* a plausible slip: the code span applied first, innermost
apply_markdown_annotations_CodeFirst(content, annotations) ==
    LET c0 == IF Get(annotations, "code", FALSE)
              THEN <<BQ>> \o content \o <<BQ>> ELSE content
        c1 == IF Get(annotations, "bold", FALSE)
              THEN <<"*", "*">> \o c0 \o <<"*", "*">> ELSE c0
        c2 == IF Get(annotations, "italic", FALSE)
              THEN <<"*">> \o c1 \o <<"*">> ELSE c1
        c3 == IF Get(annotations, "underline", FALSE)
              THEN <<"<", "u", ">">> \o c2 \o <<"<", "/", "u", ">">> ELSE c2
        c4 == IF Get(annotations, "strikethrough", FALSE)
              THEN <<"~", "~">> \o c3 \o <<"~", "~">> ELSE c3
    IN c4

apply_markdown_annotations(content, annotations) ==
    LET c1 == IF Get(annotations, "bold", FALSE)
              THEN <<"*", "*">> \o content \o <<"*", "*">> ELSE content
        c2 == IF Get(annotations, "italic", FALSE)
              THEN <<"*">> \o c1 \o <<"*">> ELSE c1
        c3 == IF Get(annotations, "underline", FALSE)
              THEN <<"<", "u", ">">> \o c2 \o <<"<", "/", "u", ">">> ELSE c2
        c4 == IF Get(annotations, "strikethrough", FALSE)
              THEN <<"~", "~">> \o c3 \o <<"~", "~">> ELSE c3
        c5 == IF Get(annotations, "code", FALSE)
              THEN <<BQ>> \o c4 \o <<BQ>> ELSE c4
    IN c5

RECURSIVE compose_text(_)
compose_text(texts) ==
    IF texts = <<>> THEN <<>>
    ELSE LET text == Head(texts)
             piece ==
                 IF Get(text, "type", "") = "text"
                 THEN apply_markdown_annotations(
                          text.text.content,
                          Get(text, "annotations", [none |-> FALSE]))
                 ELSE <<>>
         IN piece \o compose_text(Tail(texts))

(***************************************************************************)
(* Leaf block handlers.                                                    *)
(***************************************************************************)
handle_paragraph(paragraph) == compose_text(Get(paragraph, "rich_text", <<>>))

handle_heading(heading, level) ==
    [i \in 1..level |-> "#"] \o <<" ">>
        \o compose_text(Get(heading, "rich_text", <<>>))

handle_bulleted_list_item(list_item) ==
    <<"-", " ">> \o compose_text(Get(list_item, "rich_text", <<>>))

handle_numbered_list_item(list_item) ==
    <<"1", ".", " ">> \o compose_text(Get(list_item, "rich_text", <<>>))

handle_to_do(to_do) ==
    LET checkbox == IF Get(to_do, "checked", FALSE)
                    THEN <<"[", "x", "]">> ELSE <<"[", " ", "]">>
    IN <<"-", " ">> \o checkbox \o <<" ">>
           \o compose_text(Get(to_do, "rich_text", <<>>))

handle_code(code) ==
    Fence \o Get(code, "language", <<>>) \o <<NL>>
        \o compose_text(Get(code, "rich_text", <<>>)) \o <<NL>> \o Fence

handle_quote(quote) ==
    <<">", " ">> \o compose_text(Get(quote, "rich_text", <<>>))

\* a plausible slip: the other thematic break of Markdown
handle_divider_Underscores == <<"_", "_", "_">>

handle_divider == <<"-", "-", "-">>

(***************************************************************************)
(* The fetcher: GET /blocks/{id}/children.  requests.get either raises     *)
(* (no response at all) or returns a response whose status is 2xx or an    *)
(* error status; raise_for_status raises HTTPError on the latter.          *)
(***************************************************************************)
Ids == {"A", "B"}

ConnectionFailure == [kind |-> "ConnectionError", ok |-> FALSE, results |-> <<>>]
ErrorStatus == [kind |-> "response", ok |-> FALSE, results |-> <<>>]
Children(blocks) == [kind |-> "response", ok |-> TRUE, results |-> blocks]

requests_get(id) == served[id]

(***************************************************************************)
(* The call state threaded through one top-level render:                   *)
(*   processed_pages  the set the code passes by reference                 *)
(*   log              what the call did, in order                          *)
(*   exc              the exception unwinding the call, or "none"          *)
(***************************************************************************)
Event(ev, id, outcome) == [ev |-> ev, id |-> id, outcome |-> outcome]

Logged(st, e) == [st EXCEPT !.log = Append(@, e)]

Raised(st, e) == [st EXCEPT !.exc = e]

Ret(st, val) == [st |-> st, val |-> val]

Outcome(response) ==
    IF response.kind = "ConnectionError" THEN "ConnectionError"
    ELSE IF response.ok THEN "ok" ELSE "HTTPError"

HandledTypes ==
    {"paragraph", "heading_1", "heading_2", "heading_3",
     "bulleted_list_item", "numbered_list_item", "to_do", "toggle",
     "code", "quote", "divider", "child_page"}

RECURSIVE fetch_page_content_recursive(_, _, _)
RECURSIVE convert_blocks_to_markdown(_, _, _)
RECURSIVE blocks_loop(_, _, _, _, _)
RECURSIVE handle_toggle(_, _, _)
RECURSIVE block_content(_, _, _)
RECURSIVE child_page_content(_, _, _)

\* a call that would nest deeper than the interpreter allows
TooDeep(st, depth) ==
    Ret(Raised(Logged(st, Event("raise", "", "RecursionError")),
               "RecursionError"), <<>>)

handle_toggle(toggle, st, depth) ==
    IF depth > RecursionLimit THEN TooDeep(st, depth)
    ELSE
    LET summary == compose_text(Get(toggle, "rich_text", <<>>))
        toggle_id == Get(toggle, "id", "")
        empty == DetailsOpen \o summary \o SummaryClose \o SEP \o DetailsClose
    IN IF toggle_id # ""
       THEN LET response == requests_get(toggle_id)
                st1 == Logged(st, Event("toggle_fetch", toggle_id,
                                        Outcome(response)))
            IN IF response.kind = "ConnectionError"
               THEN Ret(Raised(st1, "ConnectionError"), <<>>)
               ELSE IF ~response.ok
               THEN Ret(st1, empty)
               ELSE LET r == convert_blocks_to_markdown(
                                 response.results, st1, depth + 1)
                    IN IF r.st.exc # "none" THEN Ret(r.st, <<>>)
                       ELSE Ret(r.st, DetailsOpen \o summary \o SummaryClose
                                        \o SEP \o r.val \o <<NL>>
                                        \o DetailsClose)
       ELSE Ret(st, empty)

\* a plausible slip: a child page whose render is empty gives no fragment
child_page_content_DropsEmpty(block, st, depth) ==
    LET child_page == Get(block, "child_page", [none |-> ""])
        child_page_id == Get(child_page, "page_id", "")
        child_page_title == Get(child_page, "title", UntitledPage)
    IN IF child_page_id # ""
       THEN LET r == fetch_page_content_recursive(
                         child_page_id, st, depth + 1)
            IN IF r.st.exc # "none" \/ r.val = <<>> THEN Ret(r.st, <<>>)
               ELSE Ret(r.st, <<NL, "#", "#", "#", " ">>
                                \o child_page_title \o SEP
                                \o r.val \o <<NL>>)
       ELSE Ret(Logged(st, Event("print", "", "no_child_page_id")), <<>>)

\* the child_page branch of _convert_blocks_to_markdown
child_page_content(block, st, depth) ==
    LET child_page == Get(block, "child_page", [none |-> ""])
        child_page_id == Get(child_page, "page_id", "")
        child_page_title == Get(child_page, "title", UntitledPage)
    IN IF child_page_id # ""
       THEN LET r == fetch_page_content_recursive(
                         child_page_id, st, depth + 1)
            IN IF r.st.exc # "none" THEN Ret(r.st, <<>>)
               ELSE Ret(r.st, <<NL, "#", "#", "#", " ">>
                                \o child_page_title \o SEP
                                \o r.val \o <<NL>>)
       ELSE Ret(Logged(st, Event("print", "", "no_child_page_id")), <<>>)

\* the if/elif chain of _convert_blocks_to_markdown for a handled type
block_content(block, st, depth) ==
    CASE block.type = "paragraph" ->
             Ret(st, handle_paragraph(block.paragraph))
      [] block.type = "heading_1" ->
             Ret(st, handle_heading(block.heading_1, 1))
      [] block.type = "heading_2" ->
             Ret(st, handle_heading(block.heading_2, 2))
      [] block.type = "heading_3" ->
             Ret(st, handle_heading(block.heading_3, 3))
      [] block.type = "bulleted_list_item" ->
             Ret(st, handle_bulleted_list_item(block.bulleted_list_item))
      [] block.type = "numbered_list_item" ->
             Ret(st, handle_numbered_list_item(block.numbered_list_item))
      [] block.type = "to_do" ->
             Ret(st, handle_to_do(block.to_do))
      [] block.type = "toggle" ->
             handle_toggle(block.toggle, st, depth + 1)
      [] block.type = "code" ->
             Ret(st, handle_code(block.code))
      [] block.type = "quote" ->
             Ret(st, handle_quote(block.quote))
      [] block.type = "divider" ->
             Ret(st, handle_divider)
      [] block.type = "child_page" ->
             child_page_content(block, st, depth)

\* a plausible slip: break instead of continue on an unhandled type
blocks_loop_StopsAtUnknown(blocks, i, st, markdown_lines, depth) ==
    IF i > Len(blocks) THEN Ret(st, markdown_lines)
    ELSE
    LET block == blocks[i]
    IN IF ~HasKey(block, "type")
       THEN blocks_loop(blocks, i + 1, st, markdown_lines, depth)
       ELSE IF block.type \notin HandledTypes
       THEN Ret(Logged(st, Event("print", "", "unhandled")), markdown_lines)
       ELSE LET r == block_content(block, st, depth)
            IN IF r.st.exc # "none" THEN Ret(r.st, <<>>)
               ELSE blocks_loop(blocks, i + 1, r.st,
                                IF r.val # <<>>
                                THEN Append(markdown_lines, r.val)
                                ELSE markdown_lines,
                                depth)

\* a plausible slip: the test "if content" left out before the append
blocks_loop_KeepsEmpty(blocks, i, st, markdown_lines, depth) ==
    IF i > Len(blocks) THEN Ret(st, markdown_lines)
    ELSE
    LET block == blocks[i]
    IN IF ~HasKey(block, "type")
       THEN blocks_loop(blocks, i + 1, st, markdown_lines, depth)
       ELSE IF block.type \notin HandledTypes
       THEN blocks_loop(blocks, i + 1,
                        Logged(st, Event("print", "", "unhandled")),
                        markdown_lines, depth)
       ELSE LET r == block_content(block, st, depth)
            IN IF r.st.exc # "none" THEN Ret(r.st, <<>>)
               ELSE blocks_loop(blocks, i + 1, r.st,
                                Append(markdown_lines, r.val), depth)

\* a plausible slip: numbered items numbered by their place in the list
blocks_loop_Counting(blocks, i, st, markdown_lines, depth) ==
    IF i > Len(blocks) THEN Ret(st, markdown_lines)
    ELSE
    LET block == blocks[i]
    IN IF ~HasKey(block, "type")
       THEN blocks_loop(blocks, i + 1, st, markdown_lines, depth)
       ELSE IF block.type \notin HandledTypes
       THEN blocks_loop(blocks, i + 1,
                        Logged(st, Event("print", "", "unhandled")),
                        markdown_lines, depth)
       ELSE LET r == block_content(block, st, depth)
                content ==
                    IF block.type = "numbered_list_item"
                    THEN <<<<"1", "2", "3", "4", "5", "6", "7", "8", "9">>[i]>>
                             \o Tail(r.val)
                    ELSE r.val
            IN IF r.st.exc # "none" THEN Ret(r.st, <<>>)
               ELSE blocks_loop(blocks, i + 1, r.st,
                                IF content # <<>>
                                THEN Append(markdown_lines, content)
                                ELSE markdown_lines,
                                depth)

\* the for loop of _convert_blocks_to_markdown from block i on;
\* the val of the result is markdown_lines
blocks_loop(blocks, i, st, markdown_lines, depth) ==
    IF i > Len(blocks) THEN Ret(st, markdown_lines)
    ELSE
    LET block == blocks[i]
    IN IF ~HasKey(block, "type")
       THEN blocks_loop(blocks, i + 1, st, markdown_lines, depth)
       ELSE IF block.type \notin HandledTypes
       THEN blocks_loop(blocks, i + 1,
                        Logged(st, Event("print", "", "unhandled")),
                        markdown_lines, depth)
       ELSE LET r == block_content(block, st, depth)
            IN IF r.st.exc # "none" THEN Ret(r.st, <<>>)
               ELSE blocks_loop(blocks, i + 1, r.st,
                                IF r.val # <<>>
                                THEN Append(markdown_lines, r.val)
                                ELSE markdown_lines,
                                depth)

\* a plausible slip: the fragments joined by one newline
convert_blocks_to_markdown_OneNewline(blocks, st, depth) ==
    IF depth > RecursionLimit THEN TooDeep(st, depth)
    ELSE LET r == blocks_loop(blocks, 1, st, <<>>, depth)
         IN IF r.st.exc # "none" THEN Ret(r.st, <<>>)
            ELSE Ret(r.st, JoinStr(<<NL>>, r.val))

convert_blocks_to_markdown(blocks, st, depth) ==
    IF depth > RecursionLimit THEN TooDeep(st, depth)
    ELSE LET r == blocks_loop(blocks, 1, st, <<>>, depth)
         IN IF r.st.exc # "none" THEN Ret(r.st, <<>>)
            ELSE Ret(r.st, JoinStr(SEP, r.val))

\* a plausible slip: the HTTP error status re-raised instead of swallowed
fetch_page_content_recursive_Raises(page_id, st, depth) ==
    IF depth > RecursionLimit THEN TooDeep(st, depth)
    ELSE IF page_id \in st.processed_pages
    THEN Ret(Logged(st, Event("skip", page_id, "")), <<>>)
    ELSE
    LET st1 == Logged([st EXCEPT !.processed_pages = @ \cup {page_id}],
                      Event("add", page_id, ""))
        response == requests_get(page_id)
        st2 == Logged(st1, Event("page_fetch", page_id, Outcome(response)))
    IN IF response.kind = "ConnectionError"
       THEN Ret(Raised(st2, "ConnectionError"), <<>>)
       ELSE IF ~response.ok
       THEN Ret(Raised(st2, "HTTPError"), <<>>)
       ELSE convert_blocks_to_markdown(response.results, st2, depth + 1)

\* a plausible slip: the test of processed_pages left out
fetch_page_content_recursive_NoGuard(page_id, st, depth) ==
    IF depth > RecursionLimit THEN TooDeep(st, depth)
    ELSE
    LET st1 == Logged([st EXCEPT !.processed_pages = @ \cup {page_id}],
                      Event("add", page_id, ""))
        response == requests_get(page_id)
        st2 == Logged(st1, Event("page_fetch", page_id, Outcome(response)))
    IN IF response.kind = "ConnectionError"
       THEN Ret(Raised(st2, "ConnectionError"), <<>>)
       ELSE IF ~response.ok
       THEN Ret(st2, <<>>)
       ELSE convert_blocks_to_markdown(response.results, st2, depth + 1)

fetch_page_content_recursive(page_id, st, depth) ==
    IF depth > RecursionLimit THEN TooDeep(st, depth)
    ELSE IF page_id \in st.processed_pages
    THEN Ret(Logged(st, Event("skip", page_id, "")), <<>>)
    ELSE
    LET st1 == Logged([st EXCEPT !.processed_pages = @ \cup {page_id}],
                      Event("add", page_id, ""))
        response == requests_get(page_id)
        st2 == Logged(st1, Event("page_fetch", page_id, Outcome(response)))
    IN IF response.kind = "ConnectionError"
       THEN Ret(Raised(st2, "ConnectionError"), <<>>)
       ELSE IF ~response.ok
       THEN Ret(st2, <<>>)
       ELSE convert_blocks_to_markdown(response.results, st2, depth + 1)

\* the fresh set of line 111
FreshCall == [processed_pages |-> {}, log |-> <<>>, exc |-> "none"]

\* a plausible slip: the set kept on the object and shared by the calls
read_page_markdown_SharedSet(page_id) ==
    fetch_page_content_recursive(
        page_id, [FreshCall EXCEPT !.processed_pages = last.processed_pages], 2)

read_page_markdown(page_id) ==
    fetch_page_content_recursive(page_id, FreshCall, 2)

(***************************************************************************)
(* Blocks the fetcher serves.                                              *)
(***************************************************************************)
Run(s) == [type |-> "text", text |-> [content |-> s],
           annotations |-> NoAnnotations]

Paragraph(s) ==
    [type |-> "paragraph",
     paragraph |-> [rich_text |-> IF s = <<>> THEN <<>> ELSE <<Run(s)>>]]
Toggle(id) ==
    [type |-> "toggle", toggle |-> [rich_text |-> <<Run(<<"s">>)>>, id |-> id]]
ToggleNoId ==
    [type |-> "toggle", toggle |-> [rich_text |-> <<Run(<<"s">>)>>]]
\* a toggle identified as every block is, by the id of the block object;
\* its payload holds the summary only
ToggleBlock(id) ==
    [type |-> "toggle", id |-> id,
     toggle |-> [rich_text |-> <<Run(<<"s">>)>>]]
ChildPage(id) ==
    [type |-> "child_page",
     child_page |-> [page_id |-> id, title |-> <<"T">>]]
ChildPageNoId == [type |-> "child_page", child_page |-> [title |-> <<"T">>]]
Embed == [type |-> "embed", embed |-> [url |-> <<"u">>]]
NoType == [object |-> "block"]

Palette ==
    {Paragraph(<<"a">>), Paragraph(<<"b">>), Paragraph(<<>>), Embed, NoType,
     ToggleNoId, ChildPageNoId}
        \cup {Toggle(id) : id \in Ids} \cup {ChildPage(id) : id \in Ids}

SeqsUpTo(S, n) == UNION {[1..k -> S] : k \in 0..n}

Responses(lists) ==
    {ConnectionFailure, ErrorStatus} \cup {Children(bs) : bs \in lists}

\* what the second identifier may serve: the shapes that close a cycle,
\* nest a toggle, or end the walk
NestedLists ==
    {<<>>, <<Paragraph(<<"b">>)>>, <<ChildPage("A")>>, <<ChildPage("B")>>,
     <<Toggle("A")>>, <<Toggle("B")>>,
     <<Paragraph(<<"a">>), ChildPage("A"), Paragraph(<<"b">>)>>,
     <<Paragraph(<<"a">>), Embed, Paragraph(<<"b">>)>>,
     <<Paragraph(<<"a">>), Paragraph(<<>>), Paragraph(<<"b">>)>>,
     <<Toggle("A"), Toggle("A"), Paragraph(<<"b">>)>>,
     <<NoType, ToggleNoId, ChildPageNoId, Paragraph(<<"b">>)>>,
     <<ToggleBlock("A"), Paragraph(<<"b">>)>>}

(***************************************************************************)
(* The Markdown to block parser.                                           *)
(***************************************************************************)
TextRun(content) == [type |-> "text", text |-> [content |-> content]]

\* {"object": "block", "type": type, type: payload}
Descriptor(type, payload) ==
    ("object" :> "block") @@ ("type" :> type) @@ (type :> payload)

RichText(content) == [rich_text |-> <<TextRun(content)>>]

ToDo(content, checked) ==
    [text |-> <<TextRun(content)>>, checked |-> checked]

Code(language) == [text |-> <<TextRun(<<>>)>>, language |-> language]

\* a plausible slip: the bare "###" test placed above the heading tests
line_block_ToggleFirst(line) ==
    IF StartsWith(line, <<"#", "#", "#">>)
    THEN Descriptor("toggle", RichText(line))
    ELSE IF StartsWith(line, <<"#", "#", " ">>)
    THEN Descriptor("heading_2", RichText(SliceFrom(line, 3)))
    ELSE IF StartsWith(line, <<"#", " ">>)
    THEN Descriptor("heading_1", RichText(SliceFrom(line, 2)))
    ELSE IF StartsWith(line, <<"-", " ", "[", "x", "]", " ">>)
    THEN Descriptor("to_do", ToDo(SliceFrom(line, 6), TRUE))
    ELSE IF StartsWith(line, <<"-", " ", "[", " ", "]", " ">>)
    THEN Descriptor("to_do", ToDo(SliceFrom(line, 6), FALSE))
    ELSE IF StartsWith(line, <<"-", " ">>)
    THEN Descriptor("bulleted_list_item", RichText(SliceFrom(line, 2)))
    ELSE IF StartsWith(line, <<"1", ".", " ">>)
    THEN Descriptor("numbered_list_item", RichText(SliceFrom(line, 3)))
    ELSE IF StartsWith(line, Fence)
    THEN Descriptor("code", Code(Strip(SliceFrom(line, 3))))
    ELSE IF StartsWith(line, <<"-", "-", "-">>)
              \/ StartsWith(line, <<"*", "*", "*">>)
    THEN Descriptor("divider", [none |-> <<>>])
    ELSE IF StartsWith(line, <<">", " ">>)
    THEN Descriptor("quote", RichText(SliceFrom(line, 2)))
    ELSE Descriptor("paragraph", RichText(line))

\* the descriptor appended for one line: the if/elif chain of the loop body
line_block(line) ==
    IF StartsWith(line, <<"#", "#", "#", " ">>)
    THEN Descriptor("heading_3", RichText(SliceFrom(line, 4)))
    ELSE IF StartsWith(line, <<"#", "#", " ">>)
    THEN Descriptor("heading_2", RichText(SliceFrom(line, 3)))
    ELSE IF StartsWith(line, <<"#", " ">>)
    THEN Descriptor("heading_1", RichText(SliceFrom(line, 2)))
    ELSE IF StartsWith(line, <<"-", " ", "[", "x", "]", " ">>)
    THEN Descriptor("to_do", ToDo(SliceFrom(line, 6), TRUE))
    ELSE IF StartsWith(line, <<"-", " ", "[", " ", "]", " ">>)
    THEN Descriptor("to_do", ToDo(SliceFrom(line, 6), FALSE))
    ELSE IF StartsWith(line, <<"-", " ">>)
    THEN Descriptor("bulleted_list_item", RichText(SliceFrom(line, 2)))
    ELSE IF StartsWith(line, <<"1", ".", " ">>)
    THEN Descriptor("numbered_list_item", RichText(SliceFrom(line, 3)))
    ELSE IF StartsWith(line, Fence)
    THEN Descriptor("code", Code(Strip(SliceFrom(line, 3))))
    ELSE IF StartsWith(line, <<"-", "-", "-">>)
              \/ StartsWith(line, <<"*", "*", "*">>)
    THEN Descriptor("divider", [none |-> <<>>])
    ELSE IF StartsWith(line, <<">", " ">>)
    THEN Descriptor("quote", RichText(SliceFrom(line, 2)))
    ELSE IF StartsWith(line, <<"#", "#", "#">>)
    THEN Descriptor("toggle", RichText(line))
    ELSE Descriptor("paragraph", RichText(line))

convert_markdown_to_blocks(markdown) ==
    LET lines == SplitLines(markdown)
    IN [i \in 1..Len(lines) |-> line_block(lines[i])]

(***************************************************************************)
(* The render machine: one action per top-level read_page_markdown call.   *)
(* last and prev hold the two most recent calls.                           *)
(***************************************************************************)
NoRequest == [sent |-> FALSE, children |-> <<>>]

NoCall ==
    [page |-> "", markdown |-> <<>>, exc |-> "none", log |-> <<>>,
     processed_pages |-> {}]

\* no download_file call is running
NoDownload ==
    [pc |-> "idle", remote |-> <<>>, stalls |-> FALSE, file |-> <<>>,
     done |-> FALSE, progress |-> [percent |-> 0, filled_length |-> 0],
     output |-> [exists |-> FALSE, data |-> <<>>], writes |-> 0,
     exc |-> "none"]

CallRecord(page_id, r) ==
    [page |-> page_id,
     markdown |-> r.val,
     exc |-> r.st.exc,
     log |-> r.st.log,
     processed_pages |-> r.st.processed_pages]

Init ==
    /\ \E a \in Responses(SeqsUpTo(Palette, MaxBlocks)),
          b \in Responses(NestedLists) :
           served = [id \in Ids |-> IF id = "A" THEN a ELSE b]
    /\ prev = NoCall
    /\ last = NoCall
    /\ markdown_content = <<>>
    /\ patch_request = NoRequest
    /\ download = NoDownload

ReadPageMarkdown(page_id) ==
    /\ last' = CallRecord(page_id, read_page_markdown(page_id))
    /\ prev' = last
    /\ UNCHANGED <<served, markdown_content, patch_request, download>>

Next == \E page_id \in Ids : ReadPageMarkdown(page_id)

Spec == Init /\ [][Next]_vars

(***************************************************************************)
(* The write machine: write_markdown_to_page parses the text and sends the *)
(* descriptors as the children of one PATCH request.                       *)
(***************************************************************************)
Prefixes ==
    {<<>>,
     <<"#", "#", "#", " ">>, <<"#", "#", " ">>, <<"#", " ">>,
     <<"-", " ", "[", "x", "]", " ">>, <<"-", " ", "[", " ", "]", " ">>,
     <<"-", " ">>, <<"1", ".", " ">>, Fence,
     <<"-", "-", "-">>, <<"*", "*", "*">>, <<">", " ">>,
     <<"#", "#", "#">>}

\* lines that miss a rule by one character, or carry more than the prefix
OtherLines ==
    {<<"#", "#", "#", " ", "[", "x", "]", " ", "d", "o", "n", "e">>,
     <<"#", "#", "#", "#", " ", "a">>, <<"#">>, <<"-">>,
     <<"-", " ", "[", "x", "]">>, <<"1", ".">>, <<"-", "-">>, <<">">>,
     <<" ", "#", " ", "a">>, Fence \o <<" ", "p", "y", " ">>}

InputLines == {p \o t : p \in Prefixes, t \in {<<>>, <<"a">>}} \cup OtherLines

Texts == {JoinStr(<<NL>>, ls) : ls \in SeqsUpTo(InputLines, MaxLines) \ {<<>>}}

InitWrite ==
    /\ served = [id \in Ids |-> ErrorStatus]
    /\ prev = NoCall
    /\ last = NoCall
    /\ markdown_content \in Texts
    /\ patch_request = NoRequest
    /\ download = NoDownload

WriteMarkdownToPage ==
    /\ ~patch_request.sent
    /\ patch_request' =
           [sent |-> TRUE,
            children |-> convert_markdown_to_blocks(markdown_content)]
    /\ UNCHANGED <<served, prev, last, markdown_content, download>>

NextWrite == WriteMarkdownToPage

SpecWrite == InitWrite /\ [][NextWrite]_vars

(***************************************************************************)
(* The script machine: sandbox/notion_read.py reads the configured page    *)
(* into markdown_content, and write_markdown_to_page sends the text it is  *)
(* given.  The page holds a flat list of leaf blocks, or one paragraph of  *)
(* annotated runs.                                                         *)
(***************************************************************************)
notion_page_id == "A"

Annotated(content, annotations) ==
    [type |-> "text", text |-> [content |-> content],
     annotations |-> annotations]

Mention == [type |-> "mention", mention |-> [user |-> <<"u">>]]

\* the 32 combinations of the five flags
AnnotationSets ==
    [{"bold", "italic", "underline", "strikethrough", "code"} -> BOOLEAN]

AllRuns ==
    {Annotated(<<"x">>, a) : a \in AnnotationSets}
        \cup {Mention, TextRun(<<"x">>)}

FewRuns ==
    {Annotated(<<"x">>, [NoAnnotations EXCEPT !.bold = TRUE]),
     Annotated(<<"y">>, [NoAnnotations EXCEPT !.italic = TRUE,
                                              !.code = TRUE]),
     Mention, TextRun(<<"z">>)}

RichLists ==
    {<<Descriptor("paragraph", [rich_text |-> runs])>> :
        runs \in {<<r>> : r \in AllRuns} \cup SeqsUpTo(FewRuns, MaxRuns)}

Divider == Descriptor("divider", [none |-> <<>>])

FlatPalette ==
    {Descriptor(type, RichText(<<"a">>)) :
        type \in {"paragraph", "heading_1", "heading_3",
                  "bulleted_list_item", "numbered_list_item", "quote"}}
        \cup {Descriptor("to_do", [rich_text |-> <<TextRun(<<"a">>)>>,
                                   checked |-> checked]) :
                  checked \in BOOLEAN}
        \cup {Divider, Descriptor("paragraph", [rich_text |-> <<>>])}

FlatLists == SeqsUpTo(FlatPalette, MaxFlat)

DividerLines == {<<"-", "-", "-">>, <<"*", "*", "*">>}

InitRoundTrip ==
    /\ \E blocks \in FlatLists \cup RichLists :
           served = [id \in Ids |-> IF id = notion_page_id
                                    THEN Children(blocks) ELSE ErrorStatus]
    /\ prev = NoCall
    /\ last = NoCall
    /\ markdown_content \in DividerLines
    /\ patch_request = NoRequest
    /\ download = NoDownload

\* markdown_content = notion_api.read_page_markdown(page_id)
ReadNotionPage ==
    LET r == read_page_markdown(notion_page_id)
    IN /\ last' = CallRecord(notion_page_id, r)
       /\ markdown_content' =
              IF r.st.exc = "none" THEN r.val ELSE markdown_content
       /\ UNCHANGED <<served, prev, patch_request, download>>

NextRoundTrip == ReadNotionPage \/ WriteMarkdownToPage

SpecRoundTrip == InitRoundTrip /\ [][NextRoundTrip]_vars

(***************************************************************************)
(* The download machine: GoogleDriveHandler.download_file, one action per  *)
(* step of its body.  download.remote is the file as the chunks the server *)
(* holds, download.file the BytesIO buffer, download.output the file at    *)
(* output_path and download.writes the number of writes to it.  A call of  *)
(* next_chunk returns the next chunk and whether it was the last one, or   *)
(* raises; a downloader that stalls returns without progress and never     *)
(* reports done.                                                           *)
(***************************************************************************)
bar_length == 20

\* what print_progress_bar shows for a progress in percent
print_progress_bar(progress) ==
    [percent |-> progress,
     filled_length |-> (bar_length * progress) \div 100]

ChunkData == {"x", "y"}

RemoteFiles == SeqsUpTo(ChunkData, MaxChunks) \ {<<>>}

OutputBefore ==
    {[exists |-> FALSE, data |-> <<>>], [exists |-> TRUE, data |-> <<"o">>]}

InitDownload ==
    /\ served = [id \in Ids |-> ErrorStatus]
    /\ prev = NoCall
    /\ last = NoCall
    /\ markdown_content = <<>>
    /\ patch_request = NoRequest
    /\ \E remote \in RemoteFiles, stalls \in BOOLEAN, output \in OutputBefore :
           download = [NoDownload EXCEPT !.pc = "start", !.remote = remote,
                                         !.stalls = stalls, !.output = output]

\* request, file = io.BytesIO(), downloader, done = False
StartDownload ==
    /\ download.pc = "start"
    /\ download' = [download EXCEPT !.pc = "loop", !.file = <<>>,
                                    !.done = FALSE]
    /\ UNCHANGED <<served, prev, last, markdown_content, patch_request>>

\* int(status.progress() * 100) once file holds the chunks received
Percent(file, remote) == (Len(file) * 100) \div Len(remote)

\* a plausible slip: the with open(...) block indented into the loop
NextChunk_WritesInLoop ==
    /\ download.pc = "loop"
    /\ ~download.done
    /\ LET file == IF download.stalls THEN download.file
                   ELSE Append(download.file,
                               download.remote[Len(download.file) + 1])
           done == ~download.stalls /\ Len(file) = Len(download.remote)
       IN download' =
              [download EXCEPT
                   !.file = file,
                   !.done = done,
                   !.progress =
                       print_progress_bar(Percent(file, download.remote)),
                   !.output = [exists |-> TRUE, data |-> file],
                   !.writes = @ + 1]
    /\ UNCHANGED <<served, prev, last, markdown_content, patch_request>>

\* one turn of the while loop: next_chunk returns, the bar is printed
NextChunk ==
    /\ download.pc = "loop"
    /\ ~download.done
    /\ LET file == IF download.stalls THEN download.file
                   ELSE Append(download.file,
                               download.remote[Len(download.file) + 1])
           done == ~download.stalls /\ Len(file) = Len(download.remote)
       IN download' =
              [download EXCEPT
                   !.file = file,
                   !.done = done,
                   !.progress =
                       print_progress_bar(Percent(file, download.remote))]
    /\ UNCHANGED <<served, prev, last, markdown_content, patch_request>>

\* one turn of the while loop: next_chunk raises and download_file ends
NextChunkRaises ==
    /\ download.pc = "loop"
    /\ ~download.done
    /\ download' = [download EXCEPT !.pc = "raised", !.exc = "HttpError"]
    /\ UNCHANGED <<served, prev, last, markdown_content, patch_request>>

\* the loop is left: with open(output_path, "wb") as f: f.write(...)
WriteOutput ==
    /\ download.pc = "loop"
    /\ download.done
    /\ download' = [download EXCEPT
                        !.pc = "returned",
                        !.output = [exists |-> TRUE, data |-> download.file],
                        !.writes = @ + 1]
    /\ UNCHANGED <<served, prev, last, markdown_content, patch_request>>

Runs == StartDownload \/ NextChunk \/ WriteOutput

NextDownload == Runs \/ NextChunkRaises

SpecDownload == InitDownload /\ [][NextDownload]_vars

\* the interpreter keeps running the call; nothing makes next_chunk raise
FairSpecDownload == SpecDownload /\ WF_vars(Runs)

(***************************************************************************)
(* Reading the call records.                                               *)
(***************************************************************************)
Calls == {c \in {prev, last} : c.page # ""}

IsFetch(e) == e.ev \in {"page_fetch", "toggle_fetch"}

Added(c) == {c.log[k].id : k \in {k \in DOMAIN c.log : c.log[k].ev = "add"}}

\* the fetches of id that the call issued after it had added id to the set
FetchesOfProcessed(c, id) ==
    {j \in DOMAIN c.log :
        /\ IsFetch(c.log[j])
        /\ c.log[j].id = id
        /\ \E k \in 1..(j - 1) : c.log[k] = Event("add", id, "")}

EmptyDetails(summary) ==
    DetailsOpen \o summary \o SummaryClose \o SEP \o DetailsClose

(***************************************************************************)
(* C1.  For every finite block graph, a top-level read_page_markdown call  *)
(* terminates (here: it does not run into the recursion limit) and no      *)
(* identifier already in the visited set has its children fetched a second *)
(* time.  The code does not guard the fetch of a toggle, so this fails.    *)
(***************************************************************************)
C1_TerminatesWithoutRefetch ==
    \A c \in Calls :
        /\ c.exc # "RecursionError"
        /\ \A id \in Ids : Cardinality(FetchesOfProcessed(c, id)) <= 1

C4_ToggleFetchFailureDegrades ==
    \A c \in Calls :
        /\ \A i \in DOMAIN c.log :
               (c.log[i].ev = "toggle_fetch" /\ c.log[i].outcome # "ok")
                   => ~(i = Len(c.log) /\ c.exc # "none")
        /\ \A t \in Ids \ {c.page} :
               (/\ served[c.page] =
                       Children(<<Toggle(t), Paragraph(<<"b">>)>>)
                /\ ~served[t].ok)
                   => /\ c.exc = "none"
                      /\ c.markdown = EmptyDetails(<<"s">>) \o SEP \o <<"b">>

(***************************************************************************)
(* C8.  Every top-level call starts from an empty visited set: its first   *)
(* steps are to add and to fetch its own page, it ends with exactly the    *)
(* identifiers it added itself, and two successive calls on one page over  *)
(* the same graph give the same result.                                    *)
(***************************************************************************)
C8_VisitedSetPerCall ==
    /\ \A c \in Calls :
           /\ Len(c.log) >= 2
           /\ c.log[1] = Event("add", c.page, "")
           /\ c.log[2].ev = "page_fetch"
           /\ c.log[2].id = c.page
           /\ c.processed_pages = Added(c)
    /\ (prev.page # "" /\ prev.page = last.page) =>
           /\ last.markdown = prev.markdown
           /\ last.exc = prev.exc

C8_Witness ==
    /\ prev.page # ""
    /\ prev.page = last.page
    /\ last.exc = "none"
    /\ last.markdown # <<>>
    /\ last.log[2] = Event("page_fetch", last.page, "ok")

(***************************************************************************)
(* C9.  A block of a kind that is not handled adds no fragment and does    *)
(* not stop the walk: a list renders as the same list without such blocks, *)
(* and paragraph, embed, paragraph renders as the two paragraphs joined by *)
(* one blank line.                                                         *)
(***************************************************************************)
IsHandled(block) == HasKey(block, "type") => block.type \in HandledTypes

AfterTopFetch(c) ==
    [processed_pages |-> {c.page},
     log |-> <<c.log[1], c.log[2]>>,
     exc |-> "none"]

C9_UnknownKindSkipped ==
    \A c \in Calls :
        served[c.page].ok =>
            /\ LET kept == SelectSeq(served[c.page].results, IsHandled)
                   r == convert_blocks_to_markdown(kept, AfterTopFetch(c), 3)
               IN /\ c.exc = r.st.exc
                  /\ c.markdown = r.val
            /\ served[c.page].results =
                   <<Paragraph(<<"a">>), Embed, Paragraph(<<"b">>)>>
                   => c.markdown = <<"a", NL, NL, "b">>

C9_Witness ==
    \E c \in Calls :
        /\ served[c.page] =
               Children(<<Paragraph(<<"a">>), Embed, Paragraph(<<"b">>)>>)
        /\ c.exc = "none"
        /\ c.markdown = <<"a", NL, NL, "b">>

(***************************************************************************)
(* C10.  The text of a block list is its non-empty fragments, in block     *)
(* order, with one blank line between two of them: an empty fragment adds  *)
(* neither text nor separator, and no non-empty fragment gives the empty   *)
(* text.                                                                   *)
(***************************************************************************)
\* the fragment of each block of the list, in order, empty ones included
RECURSIVE FragmentsFrom(_, _, _)
FragmentsFrom(blocks, i, st) ==
    IF i > Len(blocks) THEN <<>>
    ELSE IF HasKey(blocks[i], "type") /\ blocks[i].type \in HandledTypes
    THEN LET r == block_content(blocks[i], st, 3)
         IN <<r.val>> \o FragmentsFrom(blocks, i + 1, r.st)
    ELSE <<<<>>>> \o FragmentsFrom(blocks, i + 1, st)

NonEmpty(fragment) == fragment # <<>>

\* every fragment after the first is led by the separator
Separated(fragments) ==
    Flatten([i \in DOMAIN fragments |->
                 IF i = 1 THEN fragments[i] ELSE SEP \o fragments[i]])

C10_FragmentsJoinedInOrder ==
    \A c \in Calls :
        (served[c.page].ok /\ c.exc = "none") =>
            LET fragments ==
                    FragmentsFrom(served[c.page].results, 1, AfterTopFetch(c))
            IN c.markdown = Separated(SelectSeq(fragments, NonEmpty))

C10_Witness ==
    \E c \in Calls :
        /\ served[c.page] =
               Children(<<Paragraph(<<"a">>), Paragraph(<<>>),
                          Paragraph(<<"b">>)>>)
        /\ c.exc = "none"
        /\ c.markdown = <<"a", NL, NL, "b">>

(***************************************************************************)
(* Reading the parsed text: the lines as the newlines delimit them.        *)
(***************************************************************************)
Newlines(s) == {i \in 1..Len(s) : s[i] = NL}

\* the position of the k-th newline of s
NewlineAt(s, k) ==
    CHOOSE p \in Newlines(s) : Cardinality({q \in Newlines(s) : q < p}) = k - 1

\* the k-th line of s, for k in 1 .. number of newlines + 1
LineAt(s, k) ==
    LET first == IF k = 1 THEN 1 ELSE NewlineAt(s, k - 1) + 1
        final == IF k = Cardinality(Newlines(s)) + 1
                 THEN Len(s) ELSE NewlineAt(s, k) - 1
    IN SubSeq(s, first, final)

IsSuffix(x, s) ==
    /\ Len(x) <= Len(s)
    /\ SubSeq(s, Len(s) - Len(x) + 1, Len(s)) = x

Payload(block) == block[block.type]

\* the list of runs a descriptor carries, under whichever key
RunsOf(block) ==
    IF HasKey(Payload(block), "rich_text") THEN Payload(block).rich_text
    ELSE IF HasKey(Payload(block), "text") THEN Payload(block).text
    ELSE <<>>

\* the prefix rules in the order the claim gives them
Rules ==
    <<[prefix |-> <<"#", "#", "#", " ">>, kind |-> "heading_3"],
      [prefix |-> <<"#", "#", " ">>, kind |-> "heading_2"],
      [prefix |-> <<"#", " ">>, kind |-> "heading_1"],
      [prefix |-> <<"-", " ", "[", "x", "]", " ">>, kind |-> "to_do"],
      [prefix |-> <<"-", " ", "[", " ", "]", " ">>, kind |-> "to_do"],
      [prefix |-> <<"-", " ">>, kind |-> "bulleted_list_item"],
      [prefix |-> <<"1", ".", " ">>, kind |-> "numbered_list_item"],
      [prefix |-> Fence, kind |-> "code"],
      [prefix |-> <<"-", "-", "-">>, kind |-> "divider"],
      [prefix |-> <<"*", "*", "*">>, kind |-> "divider"],
      [prefix |-> <<">", " ">>, kind |-> "quote"],
      [prefix |-> <<"#", "#", "#">>, kind |-> "toggle"]>>

Matching(line) == {k \in DOMAIN Rules : StartsWith(line, Rules[k].prefix)}

FirstMatch(line) == CHOOSE k \in Matching(line) : \A j \in Matching(line) : k <= j

(***************************************************************************)
(* C5.  The parser is total and gives one descriptor for each line of the  *)
(* text, blank lines included, in line order; a line that no prefix rule   *)
(* matches is a paragraph.                                                 *)
(***************************************************************************)
C5_OneDescriptorPerLine ==
    patch_request.sent =>
        LET children == patch_request.children
        IN /\ Len(children) = Cardinality(Newlines(markdown_content)) + 1
           /\ \A i \in DOMAIN children :
                  /\ children[i].type \in HandledTypes \ {"child_page"}
                  /\ Len(RunsOf(children[i])) = 1 =>
                         IsSuffix(RunsOf(children[i])[1].text.content,
                                  LineAt(markdown_content, i))
                  /\ Matching(LineAt(markdown_content, i)) = {} =>
                         /\ children[i].type = "paragraph"
                         /\ RunsOf(children[i])[1].text.content =
                                LineAt(markdown_content, i)

C5_Witness ==
    /\ patch_request.sent
    /\ markdown_content = <<NL, "a">>
    /\ Len(patch_request.children) = 2
    /\ patch_request.children[1].type = "paragraph"

(***************************************************************************)
(* C6.  The kind of the descriptor of a line is that of the first rule, in *)
(* the fixed order, whose prefix the line starts with, and paragraph when  *)
(* there is none; the line "### [x] done" is a heading 3.                  *)
(***************************************************************************)
C6_FirstMatchingRuleWins ==
    patch_request.sent =>
        \A i \in DOMAIN patch_request.children :
            LET line == LineAt(markdown_content, i)
                block == patch_request.children[i]
            IN /\ block.type =
                      IF Matching(line) = {} THEN "paragraph"
                      ELSE Rules[FirstMatch(line)].kind
               /\ block.type = "to_do" =>
                      block.to_do.checked = (FirstMatch(line) = 4)
               /\ line = <<"#", "#", "#", " ", "[", "x", "]", " ",
                           "d", "o", "n", "e">>
                      => block.type = "heading_3"

C6_Witness ==
    /\ patch_request.sent
    /\ \E i \in DOMAIN patch_request.children :
           /\ LineAt(markdown_content, i) =
                  <<"#", "#", "#", " ", "[", "x", "]", " ", "d", "o", "n", "e">>
           /\ patch_request.children[i].type = "heading_3"
           /\ Cardinality(Matching(LineAt(markdown_content, i))) = 2

(***************************************************************************)
(* C7.  Every descriptor that bears text carries, under its rich-text key, *)
(* exactly one run without annotations whose content is the extracted      *)
(* content: the line less the prefix for headings, list items, checklist   *)
(* items and quotes, the whole line for toggle and paragraph, the empty    *)
(* string for code.  The to_do and code branches write the run under the   *)
(* key text instead.                                                       *)
(***************************************************************************)
Extracted(line, kind) ==
    IF kind \in {"toggle", "paragraph"} THEN line
    ELSE IF kind = "code" THEN <<>>
    ELSE SliceFrom(line, Len(Rules[FirstMatch(line)].prefix))

C7_OneRunUnderRichText ==
    patch_request.sent =>
        \A i \in DOMAIN patch_request.children :
            LET block == patch_request.children[i]
            IN block.type # "divider" =>
                   /\ HasKey(Payload(block), "rich_text")
                   /\ Payload(block).rich_text =
                          <<TextRun(Extracted(LineAt(markdown_content, i),
                                              block.type))>>
                   /\ block.type = "code" =>
                          Payload(block).language =
                              Strip(SliceFrom(LineAt(markdown_content, i), 3))

(***************************************************************************)
(* C11.  A child-page block with a page identifier renders as a level-3    *)
(* heading of its title, a blank line, the render of the referenced page   *)
(* and a newline.  The referenced page is rendered with the visited set of *)
(* the enclosing call: it ends up in that set, and a reference to a page   *)
(* already in it (the page being rendered, directly or through another     *)
(* page) gets the empty body, raises nothing, and the blocks after it are  *)
(* rendered.                                                               *)
(***************************************************************************)
ChildHeading(title) == <<NL, "#", "#", "#", " ">> \o title \o SEP

RefersToPage(block) ==
    /\ HasKey(block, "type")
    /\ block.type = "child_page"
    /\ Get(block.child_page, "page_id", "") # ""

C11_ChildPageRecursesOrTruncates ==
    \A c \in Calls :
        /\ (served[c.page].ok /\ c.exc = "none") =>
               LET blocks == served[c.page].results
                   fragments == FragmentsFrom(blocks, 1, AfterTopFetch(c))
               IN \A i \in DOMAIN blocks :
                      RefersToPage(blocks[i]) =>
                          LET heading ==
                                  ChildHeading(blocks[i].child_page.title)
                              f == fragments[i]
                          IN /\ Len(f) > Len(heading)
                             /\ SubSeq(f, 1, Len(heading)) = heading
                             /\ f[Len(f)] = NL
                             /\ blocks[i].child_page.page_id
                                    \in c.processed_pages
                             /\ blocks[i].child_page.page_id = c.page
                                    => f = heading \o <<NL>>
        /\ served[c.page] =
               Children(<<ChildPage(c.page), Paragraph(<<"b">>)>>)
               => /\ c.exc = "none"
                  /\ c.markdown =
                         ChildHeading(<<"T">>) \o <<NL>> \o SEP \o <<"b">>
        /\ \A t \in Ids \ {c.page} :
               (/\ served[c.page] = Children(<<ChildPage(t)>>)
                /\ served[t] =
                       Children(<<Paragraph(<<"a">>), ChildPage(c.page),
                                  Paragraph(<<"b">>)>>))
                   => /\ c.exc = "none"
                      /\ c.markdown =
                             ChildHeading(<<"T">>)
                                 \o <<"a">> \o SEP
                                 \o ChildHeading(<<"T">>) \o <<NL>>
                                 \o SEP \o <<"b">>
                                 \o <<NL>>

C11_Witness ==
    \E c \in Calls :
        /\ served[c.page] = Children(<<ChildPage("B")>>)
        /\ served["B"] =
               Children(<<Paragraph(<<"a">>), ChildPage(c.page),
                          Paragraph(<<"b">>)>>)
        /\ c.exc = "none"
        /\ c.log[Len(c.log)] = Event("skip", c.page, "")
        /\ c.processed_pages = Ids

(***************************************************************************)
(* C12.  Every toggle block has the children of the toggle fetched by a    *)
(* request on the identifier of the toggle block, and renders as the       *)
(* details fragment with its summary followed by the render of those       *)
(* children.  The code looks the identifier up in the toggle payload,      *)
(* which is handed to _handle_toggle without the block around it: a toggle *)
(* identified by the id of its block is never fetched and always renders   *)
(* with an empty body.                                                     *)
(***************************************************************************)
IsToggle(block) == HasKey(block, "type") /\ block.type = "toggle"

\* the identifier of a toggle block: the id of the block, or the one a
\* payload carries
ToggleIdentifier(block) ==
    IF HasKey(block, "id") THEN block.id ELSE Get(block.toggle, "id", "")

Details(summary, nested) ==
    DetailsOpen \o summary \o SummaryClose \o SEP \o nested
        \o <<NL>> \o DetailsClose

C12_ToggleFetchesOwnChildren ==
    \A c \in Calls :
        (served[c.page].ok /\ c.exc = "none") =>
            LET blocks == served[c.page].results
                fragments == FragmentsFrom(blocks, 1, AfterTopFetch(c))
            IN \A i \in DOMAIN blocks :
                   (IsToggle(blocks[i]) /\ ToggleIdentifier(blocks[i]) # "") =>
                       LET id == ToggleIdentifier(blocks[i])
                       IN /\ \E k \in DOMAIN c.log :
                                 /\ c.log[k].ev = "toggle_fetch"
                                 /\ c.log[k].id = id
                          /\ served[id] = Children(<<Paragraph(<<"b">>)>>)
                                 => fragments[i] = Details(<<"s">>, <<"b">>)

(***************************************************************************)
(* C13.  A text run renders as its content wrapped by bold, then italic,   *)
(* then underline, then strikethrough, then the code span, for each of the *)
(* 32 combinations of the five flags: the markers open from the code span  *)
(* inwards to bold and close from bold outwards.  Bold and italic alone    *)
(* give ***content***.  A paragraph is the concatenation of its wrapped    *)
(* runs in order, and a run that is not a text run adds nothing.           *)
(***************************************************************************)
When(flag, marker) == IF flag THEN marker ELSE <<>>

Opening(a) ==
    When(a.code, <<BQ>>) \o When(a.strikethrough, <<"~", "~">>)
        \o When(a.underline, <<"<", "u", ">">>)
        \o When(a.italic, <<"*">>) \o When(a.bold, <<"*", "*">>)

Closing(a) ==
    When(a.bold, <<"*", "*">>) \o When(a.italic, <<"*">>)
        \o When(a.underline, <<"<", "/", "u", ">">>)
        \o When(a.strikethrough, <<"~", "~">>) \o When(a.code, <<BQ>>)

Wrapped(run) ==
    IF run.type # "text" THEN <<>>
    ELSE LET a == IF HasKey(run, "annotations")
                  THEN run.annotations ELSE NoAnnotations
         IN Opening(a) \o run.text.content \o Closing(a)

BoldItalic == [NoAnnotations EXCEPT !.bold = TRUE, !.italic = TRUE]

C13_AnnotationsNestInOrder ==
    \A c \in Calls :
        (/\ served[c.page].ok
         /\ Len(served[c.page].results) = 1
         /\ served[c.page].results[1].type = "paragraph") =>
            LET runs == served[c.page].results[1].paragraph.rich_text
            IN /\ c.exc = "none"
               /\ c.markdown = Flatten([i \in DOMAIN runs |-> Wrapped(runs[i])])
               /\ runs = <<Annotated(<<"x">>, BoldItalic)>> =>
                      c.markdown = <<"*", "*", "*", "x", "*", "*", "*">>

C13_Witness ==
    /\ served[notion_page_id] =
           Children(<<Descriptor("paragraph",
                                 [rich_text |->
                                      <<Annotated(<<"x">>, BoldItalic)>>])>>)
    /\ last.page = notion_page_id
    /\ last.markdown = <<"*", "*", "*", "x", "*", "*", "*">>

(***************************************************************************)
(* Reading the script machine: the list the page serves, the step that     *)
(* sends the request, and the lists all of whose fragments are non-empty   *)
(* single lines.                                                           *)
(***************************************************************************)
PageBlocks == served[notion_page_id].results

HasRead == last.page = notion_page_id /\ last.exc = "none"

Sends == ~patch_request.sent /\ patch_request'.sent

\* what a read of the page has logged when it comes to the blocks
PageFetched ==
    [page |-> notion_page_id,
     log |-> <<Event("add", notion_page_id, ""),
               Event("page_fetch", notion_page_id, "ok")>>]

PageFragments == FragmentsFrom(PageBlocks, 1, AfterTopFetch(PageFetched))

SingleLine(fragment) ==
    fragment # <<>> /\ \A k \in DOMAIN fragment : fragment[k] # NL

AllSingleLines ==
    \A i \in DOMAIN PageFragments : SingleLine(PageFragments[i])

DashLine == <<"-", "-", "-">>

(***************************************************************************)
(* C14.  The lines "---" and "***" parse to one and the same divider       *)
(* descriptor; a divider block renders as "---"; and the text rendered     *)
(* from a divider parses to that divider again.                            *)
(***************************************************************************)
C14_DividerRoundTrip ==
    [][/\ (Sends /\ last = NoCall) =>
              /\ markdown_content \in DividerLines
              /\ patch_request'.children = <<Divider>>
       /\ (last'.page = notion_page_id /\ last'.exc = "none") =>
              /\ PageBlocks = <<Divider>> => last'.markdown = DashLine
              /\ AllSingleLines =>
                     \A i \in DOMAIN PageBlocks :
                         PageBlocks[i].type = "divider" =>
                             LineAt(last'.markdown, 2 * i - 1) = DashLine
       /\ (Sends /\ HasRead /\ AllSingleLines) =>
              /\ PageBlocks = <<Divider>> =>
                     patch_request'.children = PageBlocks
              /\ \A i \in DOMAIN PageBlocks :
                     PageBlocks[i].type = "divider" =>
                         patch_request'.children[2 * i - 1] = PageBlocks[i]
      ]_vars

C14_Witness ==
    /\ PageBlocks = <<Divider>>
    /\ HasRead
    /\ markdown_content = DashLine
    /\ patch_request.sent
    /\ patch_request.children = <<Divider>>

(***************************************************************************)
(* C15.  A numbered item renders as "1. " and its text whatever its place: *)
(* in a list of single-line fragments every numbered item gives a line     *)
(* that begins with "1. ", and three numbered items in a row give three    *)
(* such lines.                                                             *)
(***************************************************************************)
NumberedItem == Descriptor("numbered_list_item", RichText(<<"a">>))

C15_NumberedItemsAllOne ==
    HasRead =>
        /\ AllSingleLines =>
               \A i \in DOMAIN PageBlocks :
                   PageBlocks[i].type = "numbered_list_item" =>
                       StartsWith(LineAt(last.markdown, 2 * i - 1),
                                  <<"1", ".", " ">>)
        /\ PageBlocks = <<NumberedItem, NumberedItem, NumberedItem>> =>
               last.markdown =
                   <<"1", ".", " ", "a", NL, NL, "1", ".", " ", "a", NL, NL,
                     "1", ".", " ", "a">>

C15_Witness ==
    /\ HasRead
    /\ PageBlocks = <<NumberedItem, NumberedItem, NumberedItem>>
    /\ LineAt(last.markdown, 5) = <<"1", ".", " ", "a">>

(***************************************************************************)
(* C16.  For a list of n >= 1 blocks whose fragments are non-empty single  *)
(* lines, the text rendered from it parses to 2n-1 descriptors: the one at *)
(* place 2i-1 is the descriptor of fragment i (its kind that of the first  *)
(* rule the fragment matches, its content the fragment less the prefix; a  *)
(* leaf block of plain text comes back with its kind, its text and its     *)
(* checked flag), and each one at an even place is a paragraph with the    *)
(* empty content.                                                          *)
(***************************************************************************)
KindOf(line) ==
    IF Matching(line) = {} THEN "paragraph" ELSE Rules[FirstMatch(line)].kind

IsPlainLeaf(block) == block \in FlatPalette /\ RunsOf(block) # <<>>

C16_RoundTripInterleavesEmptyParagraphs ==
    [][(Sends /\ HasRead /\ PageBlocks # <<>> /\ AllSingleLines) =>
           LET n == Len(PageBlocks)
               children == patch_request'.children
           IN /\ Len(children) = 2 * n - 1
              /\ \A i \in 1..n :
                     LET d == children[2 * i - 1]
                         f == PageFragments[i]
                     IN /\ d.type = KindOf(f)
                        /\ Len(RunsOf(d)) = 1 =>
                               RunsOf(d)[1].text.content = Extracted(f, d.type)
                        /\ IsPlainLeaf(PageBlocks[i]) =>
                               /\ d.type = PageBlocks[i].type
                               /\ RunsOf(d)[1].text.content = <<"a">>
                               /\ d.type = "to_do" =>
                                      d.to_do.checked =
                                          PageBlocks[i].to_do.checked
              /\ \A i \in 1..(n - 1) :
                     children[2 * i] = Descriptor("paragraph", RichText(<<>>))
      ]_vars

C16_Witness ==
    /\ HasRead
    /\ Len(PageBlocks) = 3
    /\ AllSingleLines
    /\ patch_request.sent
    /\ Len(patch_request.children) = 5
    /\ patch_request.children[2] = Descriptor("paragraph", RichText(<<>>))
    /\ patch_request.children[5].type = PageBlocks[3].type

(***************************************************************************)
(* C17.  download_file writes output_path at most once, and only in a step *)
(* taken after next_chunk has reported done: the file then holds all the   *)
(* chunks, a call that returns has written exactly once, and a call ended  *)
(* by a failure of next_chunk leaves output_path as it was.  A call whose  *)
(* downloader reports done after finitely many chunks ends, by returning   *)
(* or by raising.                                                          *)
(***************************************************************************)
Ended == download.pc \in {"returned", "raised"}

C17_WriteOnceAfterDone ==
    /\ [](/\ download.writes <= 1
          /\ download.writes = 1 =>
                 /\ download.done
                 /\ download.output = [exists |-> TRUE,
                                       data |-> download.remote]
          /\ download.pc = "returned" => download.writes = 1
          /\ download.pc = "raised" =>
                 (download.writes = 0 /\ download.output \in OutputBefore))
    /\ [][(download'.writes # download.writes
              \/ download'.output # download.output)
             => (download.done /\ download'.writes = download.writes + 1)]_vars
    /\ (download.pc = "start" /\ ~download.stalls) ~> Ended

C17_Witness ==
    /\ download.pc = "returned"
    /\ download.writes = 1
    /\ Len(download.remote) = MaxChunks
    /\ download.output.data = download.remote

====
